---- MODULE Spec2Model ----
(***************************************************************************)
(* Summary orchestration engine of generic-video-site:                     *)
(*   app/ai_summary/task_queue.py   TaskQueue, Task                        *)
(*   app/ai_summary/coordinator.py  VideoSummaryCoordinator                *)
(*   app/ai_summary/summarization.py SummarizationService                  *)
(*   app/database.py                VideoSummary, VideoSummaryVersion      *)
(*                                                                         *)
(* Threads: API callers (start_video_summary and the other entry points),  *)
(* the dispatcher thread (_worker_loop) and one worker thread per popped   *)
(* task (_process_task).  The store is the SQLite default of database.py:  *)
(* every SELECT reads the committed state at the time it runs, every       *)
(* commit() is one atomic write that checks the unique constraints, and a  *)
(* commit writes only the attributes whose assigned value differs from     *)
(* the value the session loaded (the ORM's unit of work).                  *)
(***************************************************************************)
EXTENDS Naturals, Sequences, FiniteSets, TLC

(* ------------------------------ bounds --------------------------------- *)

\* number of tasks ever added to the queue
MaxTasks == 2

\* number of update_task_progress calls made by outside writers
MaxProgressCalls == 1

\* number of tasks ever added to a queue that is used without the coordinator
MaxPoolTasks == 3

\* last reading of datetime.utcnow() by the queue
MaxClock == 3

\* API client threads that may be inside start_video_summary at once
Callers == {"c1", "c2"}

\* video files, as the components of their absolute path; both have the same
\* basename under different mount roots
Paths == {<<"m1", "a.mp4">>, <<"m2", "a.mp4">>}

\* the path of a task that is not a video summary
NoPath == <<>>

\* model_name arguments of start_video_summary; "None" is the omitted argument
ModelNames == {"None", "llama3.2:7b"}

\* percent arguments of update_task_progress
Percents == {10, 120}

\* max_age_hours arguments of cleanup_old_tasks, in clock units
MaxAges == {0, 1}

\* task types given to add_task: the coordinator's and one without a handler
OtherType == "other"

(* --------------------------- program constants -------------------------- *)

max_workers == 2

None == "None"

NoRow == [id |-> 0]

TaskIds == 1..(IF MaxTasks > MaxPoolTasks THEN MaxTasks ELSE MaxPoolTasks)

VARIABLES
    summaries,        \* table video_summaries: id -> row
    versions,         \* table video_summary_versions, in insertion (id) order
    tasks,            \* TaskQueue.tasks: task id -> Task
    pending_tasks,    \* TaskQueue.pending_tasks
    active_workers,   \* TaskQueue.active_workers
    callers,          \* per API thread: position inside start_video_summary
    w,                \* per task id: the worker thread running _process_task
    ret,              \* the response returned by the API call of the last step
    clock,            \* datetime.utcnow() as seen by the store's writers
    progressCalls,    \* update_task_progress calls made so far
    now,              \* datetime.utcnow() as seen by the queue
    sync_groups,      \* table sync_groups: the sync codes of the groups
    device_syncs      \* table device_syncs, in insertion (rowid) order

syncVars == <<sync_groups, device_syncs>>

vars == <<summaries, versions, tasks, pending_tasks, active_workers,
          callers, w, ret, clock, progressCalls, now, syncVars>>

(* ------------------------------ helpers --------------------------------- *)

Max(S) == IF S = {} THEN 0 ELSE CHOOSE m \in S : \A n \in S : n <= m

Range(s) == {s[i] : i \in DOMAIN s}

RECURSIVE Join(_)
Join(toks) == IF toks = <<>> THEN "" ELSE Head(toks) \o Join(Tail(toks))

RECURSIVE Remove(_, _)
\* list.remove(x): drops the first occurrence
Remove(s, x) ==
    IF s = <<>> THEN <<>>
    ELSE IF Head(s) = x THEN Tail(s)
    ELSE <<Head(s)>> \o Remove(Tail(s), x)

NoRet == [op |-> "none"]

(* ------------------------------ the store ------------------------------- *)

\* VideoSummary(video_path=p, status='pending') with the column defaults
NewSummaryRow(p) ==
    [video_path |-> p, status |-> "pending", summary |-> None,
     model_used |-> "whisper-base+llama3.2:7b", error_message |-> None,
     generated_at |-> clock]

\* what a session holds after loading row id
Loaded(id) == [id |-> id] @@ summaries[id]

\* db.query(VideoSummary).filter(VideoSummary.video_path == p).first()
RowByPath(p) ==
    LET ids == {id \in DOMAIN summaries : summaries[id].video_path = p}
    IN  IF ids = {} THEN 0 ELSE CHOOSE id \in ids : \A j \in ids : id <= j

\* db.query(VideoSummary).filter(VideoSummary.id == id).first()
RowById(id) == IF id \in DOMAIN summaries THEN Loaded(id) ELSE NoRow

\* INTEGER PRIMARY KEY of the SQLite table: one more than the largest rowid
NewSummaryId == Max(DOMAIN summaries) + 1

\* a table declared without the unique constraint on video_path
UqVideoPathDropped(p) == FALSE

\* UniqueConstraint('video_path'): would inserting a row for p violate it
UqVideoPathViolated(p) == \E id \in DOMAIN summaries : summaries[id].video_path = p

\* UniqueConstraint('video_path', 'version')
UqPathVersionViolated(p, v) ==
    \E i \in DOMAIN versions : versions[i].video_path = p /\ versions[i].version = v

\* the UPDATE a commit emits for a loaded row: only the assigned attributes
\* whose value differs from the loaded one are written
Flush(loaded, assigned) ==
    [f \in DOMAIN summaries[loaded.id] |->
        IF f \in DOMAIN assigned /\ assigned[f] # loaded[f]
        THEN assigned[f] ELSE summaries[loaded.id][f]]

\* versions of path p
VersionsOf(p) == {versions[i].version : i \in {j \in DOMAIN versions : versions[j].video_path = p}}

(* ------------------------------ the queue ------------------------------- *)

\* TaskQueue.handlers once the coordinator has bound its handler
Handlers == {"video_summary"}

\* Task.__init__
NewTask(type, p, sid, m) ==
    [task_type |-> type, video_path |-> p, summary_id |-> sid, model_name |-> m,
     status |-> "pending", progress_percent |-> 0, result |-> None, error |-> None,
     \* a timestamp of 0 is None
     completed_at |-> 0,
     \* history, read by no operation: the clock when the status became
     \* terminal, 0 while it is not
     ended_at |-> 0]

\* uuid4 ids, numbered in the order add_task creates them; an id that
\* cleanup_old_tasks has removed from the map is not given again
NextTaskId == Max(DOMAIN tasks \cup {t \in TaskIds : w[t].pc # "none"}) + 1

IdleCaller == [pc |-> "idle", path |-> NoPath, force |-> FALSE, model |-> None,
               loaded |-> NoRow, sid |-> 0]

IdleWorker == [pc |-> "none", row |-> NoRow, maxv |-> 0, transcript |-> None,
               summary |-> None, model_used |-> None, result |-> None, files |-> {}]

InFlight == {c \in Callers : callers[c].pc # "idle"}

\* room for one more task within the bound
TaskBudget == (NextTaskId - 1) + Cardinality(InFlight) < MaxTasks

Init ==
    /\ summaries = <<>>
    /\ versions = <<>>
    /\ tasks = <<>>
    /\ pending_tasks = <<>>
    /\ active_workers = 0
    /\ callers = [c \in Callers |-> IdleCaller]
    /\ w = [t \in TaskIds |-> IdleWorker]
    /\ ret = NoRet
    /\ clock = 1
    /\ progressCalls = 0
    /\ now = 1
    /\ sync_groups = {}
    /\ device_syncs = <<>>

(* --------------------- Coordinator.start_video_summary ------------------ *)

\* a rejection that stamps the row of the path with the time of the call
StartRejectStamping(c, p, err) ==
    /\ ret' = [op |-> "start", success |-> FALSE, error |-> err]
    /\ summaries' = [id \in DOMAIN summaries |->
                        IF summaries[id].video_path = p
                        THEN [summaries[id] EXCEPT !.generated_at = clock]
                        ELSE summaries[id]]
    /\ UNCHANGED <<versions, tasks, pending_tasks, active_workers,
                   callers, w, clock, progressCalls, now, syncVars>>

\* lines 125-143: the response of a rejected call
StartReject(c, p, err) ==
    /\ ret' = [op |-> "start", success |-> FALSE, error |-> err]
    /\ UNCHANGED <<summaries, versions, tasks, pending_tasks, active_workers,
                   callers, w, clock, progressCalls, now, syncVars>>

\* lines 116-147: the admission query and its two rejections
StartQuery(c, p, force, m) ==
    /\ callers[c].pc = "idle"
    /\ TaskBudget
    /\ LET id == RowByPath(p) IN
       IF id # 0 /\ summaries[id].status = "completed" /\ ~force
       THEN StartReject(c, p, "Summary already exists for this video")
       ELSE IF id # 0 /\ summaries[id].status \in {"pending", "processing"} /\ ~force
       THEN StartReject(c, p, "Summary generation already in progress for this video")
       ELSE /\ callers' = [callers EXCEPT ![c] =
                    [pc |-> "queried", path |-> p, force |-> force, model |-> m,
                     loaded |-> RowById(id), sid |-> 0]]
            /\ ret' = NoRet
            /\ UNCHANGED <<summaries, versions, tasks, pending_tasks,
                           active_workers, w, clock, progressCalls, now, syncVars>>

\* the video files on disk
VideoFiles == Paths

\* a path under which no file is stored
MissingPath == <<"m1", "b.mp4">>

\* a check of the path that finds every file
PathExistsAlways(p) == TRUE

\* os.path.exists(video_path)
PathExists(p) == p \in VideoFiles

\* start_video_summary from its first line: the check of the file (lines
\* 85-114), then the admission query
StartVideoSummary(c, p, force, m) ==
    IF ~PathExists(p)
    THEN /\ callers[c].pc = "idle"
         /\ StartReject(c, p, "Video file not found")
    ELSE StartQuery(c, p, force, m)

\* lines 144-171: db.commit() of the reset or of the new row; an exception
\* (IntegrityError, StaleDataError) is rolled back and reported
StartCommit(c) ==
    /\ callers[c].pc = "queried"
    /\ LET me == callers[c] IN
       IF me.loaded = NoRow
       THEN IF UqVideoPathViolated(me.path)
            THEN /\ callers' = [callers EXCEPT ![c] = IdleCaller]
                 /\ ret' = [op |-> "start", success |-> FALSE,
                            error |-> "Database error: UNIQUE constraint failed"]
                 /\ UNCHANGED <<summaries, clock>>
            ELSE /\ summaries' = summaries @@ (NewSummaryId :> NewSummaryRow(me.path))
                 /\ callers' = [callers EXCEPT ![c].pc = "committed", ![c].sid = NewSummaryId]
                 /\ clock' = clock + 1
                 /\ ret' = NoRet
       ELSE IF me.loaded.id \notin DOMAIN summaries
            THEN /\ callers' = [callers EXCEPT ![c] = IdleCaller]
                 /\ ret' = [op |-> "start", success |-> FALSE,
                            error |-> "Database error: StaleDataError"]
                 /\ UNCHANGED <<summaries, clock>>
            ELSE /\ summaries' = [summaries EXCEPT ![me.loaded.id] =
                        Flush(me.loaded, [status |-> "pending", error_message |-> None,
                                          generated_at |-> clock])]
                 /\ callers' = [callers EXCEPT ![c].pc = "committed", ![c].sid = me.loaded.id]
                 /\ clock' = clock + 1
                 /\ ret' = NoRet
    /\ UNCHANGED <<versions, tasks, pending_tasks, active_workers, w, progressCalls, now, syncVars>>

\* TaskQueue.add_task
AddTask(type, p, sid, m) ==
    /\ tasks' = tasks @@ (NextTaskId :> NewTask(type, p, sid, m))
    /\ pending_tasks' = Append(pending_tasks, NextTaskId)

\* lines 173-189: enqueue the task and return its id
StartEnqueue(c) ==
    /\ callers[c].pc = "committed"
    /\ AddTask("video_summary", callers[c].path, callers[c].sid, callers[c].model)
    /\ callers' = [callers EXCEPT ![c] = IdleCaller]
    /\ ret' = [op |-> "start", success |-> TRUE, error |-> None]
    /\ UNCHANGED <<summaries, versions, active_workers, w, clock, progressCalls, now, syncVars>>

\* add_task called directly with a type no handler is registered for
AddOther ==
    /\ TaskBudget
    /\ AddTask(OtherType, NoPath, 0, None)
    /\ ret' = NoRet
    /\ UNCHANGED <<summaries, versions, active_workers, callers, w, clock, progressCalls,
                   now, syncVars>>

(* ------------------------------ TaskQueue ------------------------------- *)

\* a dispatcher that starts a thread for the head of the FIFO and leaves the
\* id in it
DispatchKeep ==
    /\ active_workers < max_workers
    /\ pending_tasks # <<>>
    /\ w' = [w EXCEPT ![Head(pending_tasks)].pc = "spawned"]
    /\ ret' = NoRet
    /\ UNCHANGED <<summaries, versions, tasks, pending_tasks, active_workers, callers, clock,
                   progressCalls, now, syncVars>>

\* a dispatcher that pops the newest id instead of the oldest
DispatchNewest ==
    /\ active_workers < max_workers
    /\ pending_tasks # <<>>
    /\ pending_tasks' = SubSeq(pending_tasks, 1, Len(pending_tasks) - 1)
    /\ w' = [w EXCEPT ![pending_tasks[Len(pending_tasks)]].pc = "spawned"]
    /\ ret' = NoRet
    /\ UNCHANGED <<summaries, versions, tasks, active_workers, callers, clock, progressCalls,
                   now, syncVars>>

\* _worker_loop: one iteration that finds room and a pending id, pops the
\* head of the FIFO and starts a thread on _process_task
Dispatch ==
    /\ active_workers < max_workers
    /\ pending_tasks # <<>>
    /\ pending_tasks' = Tail(pending_tasks)
    /\ w' = [w EXCEPT ![Head(pending_tasks)].pc = "spawned"]
    /\ ret' = NoRet
    /\ UNCHANGED <<summaries, versions, tasks, active_workers, callers, clock, progressCalls,
                   now, syncVars>>

\* _process_task lines 205-215: count the worker, mark the task processing
WorkerStart(t) ==
    /\ w[t].pc = "spawned"
    /\ IF t \notin DOMAIN tasks
       THEN /\ w' = [w EXCEPT ![t].pc = "done"]
            /\ UNCHANGED <<tasks, active_workers>>
       ELSE /\ active_workers' = active_workers + 1
            /\ tasks' = [tasks EXCEPT ![t].status = "processing", ![t].ended_at = 0]
            /\ w' = [w EXCEPT ![t].pc =
                        IF tasks[t].task_type \in Handlers THEN "begin" ELSE "nohandler"]
    /\ ret' = NoRet
    /\ UNCHANGED <<summaries, versions, pending_tasks, callers, clock, progressCalls,
                   now, syncVars>>

\* _process_task lines 220-222, 243-254: no handler is registered
WorkerNoHandler(t) ==
    /\ w[t].pc = "nohandler"
    /\ tasks' = [tasks EXCEPT ![t].status = "failed", ![t].error = "No handler registered",
                              ![t].completed_at = now, ![t].ended_at = now]
    /\ active_workers' = active_workers - 1
    /\ w' = [w EXCEPT ![t].pc = "done"]
    /\ ret' = NoRet
    /\ UNCHANGED <<summaries, versions, pending_tasks, callers, clock, progressCalls,
                   now, syncVars>>

\* a worker that finishes its task and is still counted as running
WorkerFinishLeaks(t) ==
    /\ w[t].pc = "returned"
    /\ tasks' = [tasks EXCEPT ![t].status = "completed", ![t].result = w[t].result,
                              ![t].progress_percent = 100,
                              ![t].completed_at = now, ![t].ended_at = now]
    /\ w' = [w EXCEPT ![t].pc = "done", ![t].result = None]
    /\ ret' = NoRet
    /\ UNCHANGED <<summaries, versions, pending_tasks, active_workers, callers, clock,
                   progressCalls, now, syncVars>>

\* _process_task lines 227-232, 252-254: the handler returned
WorkerFinish(t) ==
    /\ w[t].pc = "returned"
    /\ tasks' = [tasks EXCEPT ![t].status = "completed", ![t].result = w[t].result,
                              ![t].progress_percent = 100,
                              ![t].completed_at = now, ![t].ended_at = now]
    /\ active_workers' = active_workers - 1
    /\ w' = [w EXCEPT ![t].pc = "done", ![t].result = None]
    /\ ret' = NoRet
    /\ UNCHANGED <<summaries, versions, pending_tasks, callers, clock, progressCalls,
                   now, syncVars>>

\* a cancel_task that does not look at the status of the task
CancelTaskAnyStatus(t) ==
    /\ IF t \in DOMAIN tasks
       THEN /\ tasks' = [tasks EXCEPT ![t].status = "cancelled", ![t].ended_at = now]
            /\ pending_tasks' = IF t \in Range(pending_tasks)
                                THEN Remove(pending_tasks, t) ELSE pending_tasks
            /\ ret' = [op |-> "cancel", task_id |-> t, success |-> TRUE]
       ELSE /\ ret' = [op |-> "cancel", task_id |-> t, success |-> FALSE]
            /\ UNCHANGED <<tasks, pending_tasks>>
    /\ UNCHANGED <<summaries, versions, active_workers, callers, w, clock, progressCalls,
                   now, syncVars>>

\* a cancel_task that marks the task cancelled and leaves its id in the FIFO
CancelTaskLeavesId(t) ==
    /\ IF t \in DOMAIN tasks /\ tasks[t].status = "pending"
       THEN /\ tasks' = [tasks EXCEPT ![t].status = "cancelled", ![t].ended_at = now]
            /\ ret' = [op |-> "cancel", task_id |-> t, success |-> TRUE]
       ELSE /\ ret' = [op |-> "cancel", task_id |-> t, success |-> FALSE]
            /\ UNCHANGED tasks
    /\ UNCHANGED <<summaries, versions, pending_tasks, active_workers, callers, w, clock,
                   progressCalls, now, syncVars>>

\* cancel_task
CancelTask(t) ==
    /\ IF t \in DOMAIN tasks /\ tasks[t].status = "pending"
       THEN /\ tasks' = [tasks EXCEPT ![t].status = "cancelled", ![t].ended_at = now]
            /\ pending_tasks' = IF t \in Range(pending_tasks)
                                THEN Remove(pending_tasks, t) ELSE pending_tasks
            /\ ret' = [op |-> "cancel", task_id |-> t, success |-> TRUE]
       ELSE /\ ret' = [op |-> "cancel", task_id |-> t, success |-> FALSE]
            /\ UNCHANGED <<tasks, pending_tasks>>
    /\ UNCHANGED <<summaries, versions, active_workers, callers, w, clock, progressCalls,
                   now, syncVars>>

\* max(0, min(100, percent))
Clamp(percent) ==
    LET lo == IF percent < 100 THEN percent ELSE 100
    IN  IF lo > 0 THEN lo ELSE 0

\* update_task_progress
UpdateTaskProgress(t, percent) ==
    /\ progressCalls < MaxProgressCalls
    /\ t \in DOMAIN tasks
    /\ tasks' = [tasks EXCEPT ![t].progress_percent = Clamp(percent)]
    /\ progressCalls' = progressCalls + 1
    /\ ret' = NoRet
    /\ UNCHANGED <<summaries, versions, pending_tasks, active_workers, callers, w, clock,
                   now, syncVars>>

(* ------------------------- SummarizationService ------------------------- *)

\* the summarizer's own default model (SummarizationService.__init__)
DefaultLlm == "llama3.2:13b"

\* what the LLM server can answer: an HTTP error, or 200 with a response
\* text, given as the tokens that remain after strip()
LlmAnswers ==
    {[status |-> 500, response |-> <<>>],
     [status |-> 200, response |-> <<>>],
     [status |-> 200, response |-> <<"Summary:">>],
     [status |-> 200, response |-> <<"Summary:", "KEY POINTS">>]}

\* the prompt echoes _post_process_summary removes from the start, in order
EchoPrefixes == <<"Summary:", "Key Points:", "Here is", "Here are", "This video", "The video">>

RECURSIVE StripPrefixes(_, _)
StripPrefixes(toks, i) ==
    IF i > Len(EchoPrefixes) THEN toks
    ELSE IF toks # <<>> /\ Head(toks) = EchoPrefixes[i]
         THEN StripPrefixes(Tail(toks), i + 1)
         ELSE StripPrefixes(toks, i + 1)

\* _post_process_summary: the leading echoes are cut; the later substitutions
\* reformat bullets and whitespace of what is left
PostProcessSummary(toks) == Join(StripPrefixes(toks, 1))

\* summarize_transcript lines 97-128
SummarizeTranscript(answer, model_name) ==
    IF answer.status # 200
    THEN [success |-> FALSE, summary |-> None, model_used |-> None]
    ELSE IF answer.response = <<>>
    THEN [success |-> FALSE, summary |-> None, model_used |-> None]
    ELSE [success |-> TRUE, summary |-> PostProcessSummary(answer.response),
          model_used |-> IF model_name # None THEN model_name ELSE DefaultLlm]

(* ----------------- Coordinator._process_video_summary ------------------- *)

\* _update_summary_status: load the row by id, assign, commit
UpdateSummaryStatus(sid, status, error_message) ==
    IF sid \in DOMAIN summaries
    THEN summaries' = [summaries EXCEPT ![sid] =
            Flush(Loaded(sid),
                  IF error_message # None
                  THEN [status |-> status, error_message |-> error_message]
                  ELSE [status |-> status])]
    ELSE UNCHANGED summaries

\* progress_callback(message, percent) of _process_video_summary_task
ProgressCallback(t, percent) ==
    IF t \in DOMAIN tasks
    THEN [tasks EXCEPT ![t].progress_percent = percent]
    ELSE tasks

\* a temporary directory that is left behind
TemporaryDirectoryKept(files) == files

\* leaving 'with tempfile.TemporaryDirectory()': the directory is removed
\* with everything in it
TemporaryDirectoryExit(files) == {}

\* AudioExtractionService.cleanup_temp_files: os.remove of each listed path
\* that exists
CleanupTempFiles(files, file_paths) == files \ file_paths

\* the worker thread of task t once the handler has returned result
Returned(t, result) ==
    [IdleWorker EXCEPT !.pc = "returned", !.result = result,
                       !.files = CleanupTempFiles(TemporaryDirectoryExit(w[t].files),
                                                  {"audio"})]

\* an except branch that also wipes the stored summary text of the row
HandlerFailedWipes(t, msg) ==
    /\ IF tasks[t].summary_id \in DOMAIN summaries
       THEN summaries' = [summaries EXCEPT ![tasks[t].summary_id] =
                [@ EXCEPT !.status = "failed", !.error_message = msg, !.summary = None]]
       ELSE UNCHANGED summaries
    /\ w' = [w EXCEPT ![t] = Returned(t, "failure")]

\* lines 433-450: the except branch, which returns a failure result
HandlerFailed(t, msg) ==
    /\ UpdateSummaryStatus(tasks[t].summary_id, "failed", msg)
    /\ w' = [w EXCEPT ![t] = Returned(t, "failure")]

\* lines 241-251: status processing, progress 0, 5, 8
HandlerBegin(t) ==
    /\ w[t].pc = "begin"
    /\ UpdateSummaryStatus(tasks[t].summary_id, "processing", None)
    /\ tasks' = ProgressCallback(t, 8)
    /\ w' = [w EXCEPT ![t].pc = "extract", ![t].files = {"temp_dir"}]
    /\ ret' = NoRet
    /\ UNCHANGED <<versions, pending_tasks, active_workers, callers, clock, progressCalls,
                   now, syncVars>>

\* lines 253-275: the extractor returns; progress 15
HandlerExtract(t, outcome) ==
    /\ w[t].pc = "extract"
    /\ tasks' = ProgressCallback(t, 15)
    /\ CASE outcome = "ok" ->
              /\ w' = [w EXCEPT ![t].pc = "transcribe",
                                ![t].files = w[t].files \cup {"audio"}]
              /\ UNCHANGED summaries
         [] outcome = "no_audio" ->
              /\ UpdateSummaryStatus(tasks[t].summary_id, "no_audio",
                                     "Video file has no audio track")
              /\ w' = [w EXCEPT ![t] = Returned(t, "no_audio")]
         [] OTHER -> HandlerFailed(t, "Audio extraction failed")
    /\ ret' = NoRet
    /\ UNCHANGED <<versions, pending_tasks, active_workers, callers, clock, progressCalls,
                   now, syncVars>>

\* the words of the audio track, as the transcriber returns them
Transcript == "hello world. welcome."

\* a handler that goes on to the summarizer whatever the transcriber returns
HandlerTranscribeContinues(t, ok) ==
    /\ w[t].pc = "transcribe"
    /\ tasks' = ProgressCallback(t, 50)
    /\ w' = [w EXCEPT ![t].pc = "summarize",
                      ![t].transcript = IF ok THEN Transcript ELSE None]
    /\ UNCHANGED summaries
    /\ ret' = NoRet
    /\ UNCHANGED <<versions, pending_tasks, active_workers, callers, clock, progressCalls,
                   now, syncVars>>

\* lines 279-296: progress 20, 25, the transcriber returns, progress 50
HandlerTranscribe(t, ok) ==
    /\ w[t].pc = "transcribe"
    /\ tasks' = ProgressCallback(t, 50)
    /\ IF ok
       THEN /\ w' = [w EXCEPT ![t].pc = "summarize", ![t].transcript = Transcript]
            /\ UNCHANGED summaries
       ELSE HandlerFailed(t, "Transcription failed")
    /\ ret' = NoRet
    /\ UNCHANGED <<versions, pending_tasks, active_workers, callers, clock, progressCalls,
                   now, syncVars>>

\* lines 300-330: progress 55, 60, 65, the summarizer returns, progress 85,
\* and on success 90, 95
HandlerSummarize(t, answer) ==
    /\ w[t].pc = "summarize"
    /\ LET res == SummarizeTranscript(answer, tasks[t].model_name) IN
       IF res.success
       THEN /\ tasks' = ProgressCallback(t, 95)
            /\ w' = [w EXCEPT ![t].pc = "persist_read", ![t].summary = res.summary,
                              ![t].model_used = "whisper-base+" \o res.model_used]
            /\ UNCHANGED summaries
       ELSE /\ tasks' = ProgressCallback(t, 85)
            /\ HandlerFailed(t, "Summarization failed")
    /\ ret' = NoRet
    /\ UNCHANGED <<versions, pending_tasks, active_workers, callers, clock, progressCalls,
                   now, syncVars>>

\* lines 336-340, 419-431: load the Summary row by id; without a row nothing
\* is stored and the run still reports success
HandlerPersistRead(t) ==
    /\ w[t].pc = "persist_read"
    /\ LET row == RowById(tasks[t].summary_id) IN
       IF row = NoRow
       THEN /\ tasks' = ProgressCallback(t, 100)
            /\ w' = [w EXCEPT ![t] = Returned(t, "success")]
       ELSE /\ w' = [w EXCEPT ![t].pc = "persist_max", ![t].row = row]
            /\ UNCHANGED tasks
    /\ ret' = NoRet
    /\ UNCHANGED <<summaries, versions, pending_tasks, active_workers, callers, clock,
                   progressCalls, now, syncVars>>

\* lines 396-399: the largest version stored for the row's path
HandlerPersistMax(t) ==
    /\ w[t].pc = "persist_max"
    /\ w' = [w EXCEPT ![t].pc = "persist_commit",
                      ![t].maxv = Max(VersionsOf(w[t].row.video_path))]
    /\ ret' = NoRet
    /\ UNCHANGED <<summaries, versions, tasks, pending_tasks, active_workers, callers,
                   clock, progressCalls, now, syncVars>>

\* the row a VideoSummaryVersion(...) of lines 400-408 inserts
NewVersionRow(p, v, summary, model_used) ==
    [video_path |-> p, version |-> v, summary |-> summary, model_used |-> model_used]

\* lines 341-431: db.commit() of the Summary update and the new version row;
\* a failed commit is rolled back and handled by the except branch
HandlerPersistCommit(t) ==
    /\ w[t].pc = "persist_commit"
    /\ LET me == w[t] IN
       IF me.row.id \notin DOMAIN summaries
       THEN /\ HandlerFailed(t, "StaleDataError")
            /\ UNCHANGED <<versions, tasks>>
       ELSE IF UqPathVersionViolated(me.row.video_path, me.maxv + 1)
       THEN /\ HandlerFailed(t, "IntegrityError")
            /\ UNCHANGED <<versions, tasks>>
       ELSE /\ summaries' = [summaries EXCEPT ![me.row.id] =
                    Flush(me.row, [summary |-> me.summary, status |-> "completed",
                                   model_used |-> me.model_used, error_message |-> None])]
            /\ versions' = Append(versions,
                    NewVersionRow(me.row.video_path, me.maxv + 1, me.summary, me.model_used))
            /\ tasks' = ProgressCallback(t, 100)
            /\ w' = [w EXCEPT ![t] = Returned(t, "success")]
    /\ ret' = NoRet
    /\ UNCHANGED <<pending_tasks, active_workers, callers, clock, progressCalls, now, syncVars>>

(* ------------------- Coordinator: delete and get ------------------------ *)

\* a delete that also removes the version rows of the path
DeleteVideoSummaryCascade(p) ==
    /\ LET id == RowByPath(p) IN
       IF id = 0
       THEN /\ ret' = [op |-> "delete", success |-> FALSE]
            /\ UNCHANGED <<summaries, versions>>
       ELSE /\ summaries' = [i \in DOMAIN summaries \ {id} |-> summaries[i]]
            /\ versions' = SelectSeq(versions, LAMBDA v : v.video_path # p)
            /\ ret' = [op |-> "delete", success |-> TRUE]
    /\ UNCHANGED <<tasks, pending_tasks, active_workers, callers, w, clock, progressCalls,
                   now, syncVars>>

\* delete_video_summary
DeleteVideoSummary(p) ==
    /\ LET id == RowByPath(p) IN
       IF id = 0
       THEN /\ ret' = [op |-> "delete", success |-> FALSE]
            /\ UNCHANGED summaries
       ELSE /\ summaries' = [i \in DOMAIN summaries \ {id} |-> summaries[i]]
            /\ ret' = [op |-> "delete", success |-> TRUE]
    /\ UNCHANGED <<versions, tasks, pending_tasks, active_workers, callers, w, clock,
                   progressCalls, now, syncVars>>

\* video_path.split('/')[-1]
Basename(p) == p[Len(p)]

\* video_path == q, or video_path LIKE '%/<basename of q>'
TolerantMatch(stored, q) == stored = q \/ Basename(stored) = Basename(q)

\* .order_by(VideoSummary.generated_at.desc()).first() over the tolerant matches
LatestMatch(q) ==
    LET ids == {id \in DOMAIN summaries : TolerantMatch(summaries[id].video_path, q)}
    IN  IF ids = {} THEN 0
        ELSE CHOOSE id \in ids :
                \A j \in ids : summaries[j].generated_at <= summaries[id].generated_at

\* Python truth of a nullable text
Truthy(text) == text # None /\ text # ""

\* get_video_summary
GetVideoSummary(q) ==
    /\ LET id == LatestMatch(q) IN
       IF id = 0
       THEN /\ ret' = [op |-> "get", found |-> FALSE, id |-> 0]
            /\ UNCHANGED versions
       ELSE IF Truthy(summaries[id].summary) /\ summaries[id].status = "completed"
               /\ VersionsOf(q) = {}
       THEN \* lines 516-525: add version 1 for the stored path
            IF UqPathVersionViolated(summaries[id].video_path, 1)
            THEN /\ ret' = [op |-> "get", found |-> FALSE, id |-> 0]
                 /\ UNCHANGED versions
            ELSE /\ versions' = Append(versions,
                        NewVersionRow(summaries[id].video_path, 1, summaries[id].summary,
                                      summaries[id].model_used))
                 /\ ret' = [op |-> "get", found |-> TRUE, id |-> id]
       ELSE /\ ret' = [op |-> "get", found |-> TRUE, id |-> id]
            /\ UNCHANGED versions
    /\ UNCHANGED <<summaries, tasks, pending_tasks, active_workers, callers, w, clock,
                   progressCalls, now, syncVars>>

(* ------------------------------ the system ------------------------------ *)

\* the engine: every entry point of the coordinator over both videos, the
\* dispatcher and the worker threads
Next ==
    \/ \E c \in Callers, p \in Paths, force \in BOOLEAN, m \in ModelNames :
            StartQuery(c, p, force, m)
    \/ \E c \in Callers : StartCommit(c)
    \/ \E c \in Callers : StartEnqueue(c)
    \/ Dispatch
    \/ \E t \in TaskIds : WorkerStart(t)
    \/ \E t \in TaskIds : WorkerFinish(t)
    \/ \E t \in TaskIds : CancelTask(t)
    \/ \E t \in TaskIds : HandlerBegin(t)
    \/ \E t \in TaskIds, outcome \in {"ok", "no_audio", "error"} : HandlerExtract(t, outcome)
    \/ \E t \in TaskIds, ok \in BOOLEAN : HandlerTranscribe(t, ok)
    \/ \E t \in TaskIds, answer \in LlmAnswers : HandlerSummarize(t, answer)
    \/ \E t \in TaskIds : HandlerPersistRead(t)
    \/ \E t \in TaskIds : HandlerPersistMax(t)
    \/ \E t \in TaskIds : HandlerPersistCommit(t)
    \/ \E p \in Paths : DeleteVideoSummary(p)
    \/ \E q \in Paths : GetVideoSummary(q)

Spec == Init /\ [][Next]_vars

\* the queue seen through its whole API: tasks of one video and tasks of a
\* type without handler, cancellation and outside progress writes
QueuePath == <<"m1", "a.mp4">>

NextQueue ==
    \/ \E c \in Callers, p \in {QueuePath, MissingPath}, force \in BOOLEAN :
            StartVideoSummary(c, p, force, None)
    \/ \E c \in Callers : StartCommit(c)
    \/ \E c \in Callers : StartEnqueue(c)
    \/ AddOther
    \/ Dispatch
    \/ \E t \in TaskIds : WorkerStart(t)
    \/ \E t \in TaskIds : WorkerNoHandler(t)
    \/ \E t \in TaskIds : WorkerFinish(t)
    \/ \E t \in TaskIds : CancelTask(t)
    \/ \E t \in TaskIds, percent \in Percents : UpdateTaskProgress(t, percent)
    \/ \E t \in TaskIds : HandlerBegin(t)
    \/ \E t \in TaskIds, outcome \in {"ok", "no_audio", "error"} : HandlerExtract(t, outcome)
    \/ \E t \in TaskIds, ok \in BOOLEAN : HandlerTranscribe(t, ok)
    \/ \E t \in TaskIds, answer \in LlmAnswers : HandlerSummarize(t, answer)
    \/ \E t \in TaskIds : HandlerPersistRead(t)
    \/ \E t \in TaskIds : HandlerPersistMax(t)
    \/ \E t \in TaskIds : HandlerPersistCommit(t)

SpecQueue == Init /\ [][NextQueue]_vars

(* ----------------------- the queue used on its own ---------------------- *)

\* add_task called by a client of the queue: a video_summary task whose
\* summary_id matches no row, or a task of a type without handler
AddDirect(type) ==
    /\ NextTaskId <= MaxPoolTasks
    /\ AddTask(type, IF type \in Handlers THEN QueuePath ELSE NoPath, 0, None)
    /\ ret' = NoRet
    /\ UNCHANGED <<summaries, versions, active_workers, callers, w, clock, progressCalls,
                   now, syncVars>>

\* datetime.utcnow() moves on
Tick ==
    /\ now < MaxClock
    /\ now' = now + 1
    /\ ret' = NoRet
    /\ UNCHANGED <<summaries, versions, tasks, pending_tasks, active_workers, callers, w,
                   clock, progressCalls, syncVars>>

TerminalStatuses == {"completed", "failed", "cancelled"}

\* a cleanup that removes every finished task, whatever its age
CleanupAllFinished(max_age) ==
    /\ LET to_remove == {t \in DOMAIN tasks :
                            /\ tasks[t].status \in TerminalStatuses
                            /\ tasks[t].completed_at # 0}
       IN  tasks' = [t \in DOMAIN tasks \ to_remove |-> tasks[t]]
    /\ ret' = [op |-> "cleanup", max_age |-> max_age]
    /\ UNCHANGED <<summaries, versions, pending_tasks, active_workers, callers, w, clock,
                   progressCalls, now, syncVars>>

\* cleanup_old_tasks: completed_at.timestamp() < utcnow().timestamp() - max_age
CleanupOldTasks(max_age) ==
    /\ LET to_remove == {t \in DOMAIN tasks :
                            /\ tasks[t].status \in TerminalStatuses
                            /\ tasks[t].completed_at # 0
                            /\ tasks[t].completed_at + max_age < now}
       IN  tasks' = [t \in DOMAIN tasks \ to_remove |-> tasks[t]]
    /\ ret' = [op |-> "cleanup", max_age |-> max_age]
    /\ UNCHANGED <<summaries, versions, pending_tasks, active_workers, callers, w, clock,
                   progressCalls, now, syncVars>>

\* the answers that make a run without Summary row end differently: an
\* error of the LLM server and a usable summary
PoolAnswers == {a \in LlmAnswers : a.status # 200 \/ Len(a.response) = 2}

\* the queue with more tasks than workers; the runs of the handler succeed
\* or fail
NextPool ==
    \/ \E type \in {"video_summary", OtherType} : AddDirect(type)
    \/ Dispatch
    \/ \E t \in TaskIds : WorkerStart(t)
    \/ \E t \in TaskIds : WorkerNoHandler(t)
    \/ \E t \in TaskIds : WorkerFinish(t)
    \/ \E t \in TaskIds : CancelTask(t)
    \/ \E t \in TaskIds : HandlerBegin(t)
    \/ \E t \in TaskIds, outcome \in {"ok", "error"} : HandlerExtract(t, outcome)
    \/ \E t \in TaskIds, ok \in BOOLEAN : HandlerTranscribe(t, ok)
    \/ \E t \in TaskIds, answer \in PoolAnswers : HandlerSummarize(t, answer)
    \/ \E t \in TaskIds : HandlerPersistRead(t)

SpecPool == Init /\ [][NextPool]_vars

\* the next step of the thread started for task t, inside _process_task and
\* the handler
WorkerThread(t) ==
    \/ WorkerStart(t)
    \/ WorkerNoHandler(t)
    \/ WorkerFinish(t)
    \/ HandlerBegin(t)
    \/ \E outcome \in {"ok", "error"} : HandlerExtract(t, outcome)
    \/ \E ok \in BOOLEAN : HandlerTranscribe(t, ok)
    \/ \E answer \in PoolAnswers : HandlerSummarize(t, answer)
    \/ HandlerPersistRead(t)

\* the queue with a running dispatcher thread and worker threads that the
\* operating system keeps scheduling; every adapter call returns
SpecPoolLive ==
    /\ SpecPool
    /\ WF_vars(Dispatch)
    /\ \A t \in TaskIds : WF_vars(WorkerThread(t))

\* the queue over time, with its periodic cleanup
NextCleanup ==
    \/ \E type \in {"video_summary", OtherType} : AddDirect(type)
    \/ Dispatch
    \/ \E t \in TaskIds : WorkerStart(t)
    \/ \E t \in TaskIds : WorkerNoHandler(t)
    \/ \E t \in TaskIds : WorkerFinish(t)
    \/ \E t \in TaskIds : CancelTask(t)
    \/ \E t \in TaskIds : HandlerBegin(t)
    \/ \E t \in TaskIds : HandlerExtract(t, "error")
    \/ Tick
    \/ \E max_age \in MaxAges : CleanupOldTasks(max_age)

SpecCleanup == Init /\ [][NextCleanup]_vars

(* ------------------------------ jump points ----------------------------- *)

\* number of transcript segments of a video
MaxSegments == 10

\* length in characters of the text of one segment
TextLen == 40

\* the length in seconds all segments of one transcript have
SegmentSeconds == {10, 20}

\* the text of a segment: one sentence, without or with a keyword
TextKinds == {"Plain talk", "Intro"}

\* the segments the transcriber returns: consecutive, d seconds each
MakeSegments(d, texts) ==
    [i \in 1..Len(texts) |-> [start |-> d * (i - 1), end |-> d * i, text |-> texts[i]]]

SegmentLists ==
    {MakeSegments(d, texts) : d \in SegmentSeconds,
                              texts \in UNION {[1..n -> TextKinds] : n \in 0..MaxSegments}}

\* what the LLM server does with the jump-point prompt: the health check
\* fails, the request raises, the status is not 200, the text holds no
\* array, the array is not JSON, or the array is parsed into its items
LlmJumpAnswers ==
    {[kind |-> k, items |-> <<>>] :
        k \in {"unhealthy", "timeout", "http_error", "no_array", "bad_json", "parsed"}}
    \cup {[kind |-> "parsed", items |-> <<[seconds |-> 0, title |-> ""]>>],
          [kind |-> "parsed", items |-> <<[seconds |-> 20, title |-> "Demo"],
                                          [seconds |-> 0, title |-> "Welcome"]>>]}

Min(a, b) == IF a < b THEN a ELSE b

\* s[:k]
Take(s, k) == SubSeq(s, 1, Min(k, Len(s)))

\* s[k:]
Drop(s, k) == SubSeq(s, k + 1, Len(s))

\* s[::step]
EveryNth(s, step) == [i \in 1..((Len(s) + step - 1) \div step) |-> s[(i - 1) * step + 1]]

\* max(1, a // b)
StepOf(a, b) == IF a \div b > 1 THEN a \div b ELSE 1

RECURSIVE SortByKey(_)
\* list.sort / sorted on the field key: ascending and stable
SortByKey(s) ==
    IF s = <<>> THEN <<>>
    ELSE LET front == SortByKey(SubSeq(s, 1, Len(s) - 1))
             x == s[Len(s)]
             k == Cardinality({i \in DOMAIN front : front[i].key <= x.key})
         IN  SubSeq(front, 1, k) \o <<x>> \o SubSeq(front, k + 1, Len(front))

\* re.search(keywords, text)
HasKeyword(texts) == \E i \in DOMAIN texts : texts[i] = "Intro"

\* len(' '.join(acc_text)[:220])
SnippetLen(texts) == Min(220, Len(texts) * TextLen + (Len(texts) - 1))

\* text.split('. ')[0].strip(): the first sentence
FirstSentence(texts) == texts[1]

RECURSIVE Windows(_, _, _, _, _)
\* generate_jump_points lines 403-433: the segments bucketed into windows
\* that are flushed at 20 seconds or 220 characters; acc = <<>> is a window
\* that has not started
Windows(segs, i, window_start, acc, cands) ==
    IF i > Len(segs)
    THEN IF acc # <<>> THEN Append(cands, [seconds |-> window_start, snippet |-> acc])
         ELSE cands
    ELSE LET ws == IF acc = <<>> THEN segs[i].start ELSE window_start
             acc_text == Append(acc, segs[i].text)
             long_enough == \/ segs[i].end - ws >= 20
                            \/ Len(acc_text) * TextLen >= 220
         IN  IF long_enough
             THEN Windows(segs, i + 1, 0, <<>>,
                          Append(cands, [seconds |-> ws, snippet |-> acc_text]))
             ELSE Windows(segs, i + 1, ws, acc_text, cands)

MaxCandidates == 60

\* lines 435-438: at most about 60 candidates
Candidates(segs) ==
    LET all == Windows(segs, 1, 0, <<>>, <<>>)
    IN  IF Len(all) > MaxCandidates
        THEN EveryNth(all, StepOf(Len(all), MaxCandidates))
        ELSE all

\* lines 486-503: the items of the parsed array that have a title, ordered
\* by time and thinned to max_points
ParsedJumpPoints(items, max_points) ==
    LET valid == SelectSeq(items, LAMBDA it : it.title # "")
        out == SortByKey([i \in DOMAIN valid |->
                    [key |-> valid[i].seconds, seconds |-> valid[i].seconds,
                     title |-> valid[i].title]])
        cut == IF Len(out) > max_points
               THEN Take(EveryNth(out, StepOf(Len(out), max_points)), max_points)
               ELSE out
    IN  [i \in DOMAIN cut |-> [seconds |-> cut[i].seconds, title |-> cut[i].title]]

\* {c['seconds']: c for c in top}.values(): the last entry of each second
LastPerSecond(s) ==
    SelectSeq([i \in DOMAIN s |-> [s[i] EXCEPT !.key =
                    IF \E j \in DOMAIN s : j > i /\ s[j].seconds = s[i].seconds
                    THEN 0 ELSE 1]],
              LAMBDA c : c.key = 1)

\* lines 507-535: the fallback inside generate_jump_points; the score is
\* kept in units of 1/200
AdapterFallback(cands, max_points) ==
    LET scored == SortByKey([i \in DOMAIN cands |->
                    [key |-> 1000 - ((IF HasKeyword(cands[i].snippet) THEN 400 ELSE 0)
                                      + SnippetLen(cands[i].snippet)),
                     seconds |-> cands[i].seconds, snippet |-> cands[i].snippet]])
        top3 == Take(scored, 3)
        remaining == Drop(scored, 3)
        need == IF Min(max_points, 10) > Len(top3) THEN Min(max_points, 10) - Len(top3) ELSE 0
        picked == IF need > 0 /\ remaining # <<>>
                  THEN top3 \o Take(EveryNth(remaining, StepOf(Len(remaining), need)), need)
                  ELSE top3
        kept == LastPerSecond(picked)
        top == SortByKey([i \in DOMAIN kept |-> [kept[i] EXCEPT !.key = kept[i].seconds]])
    IN  [i \in DOMAIN top |->
            [seconds |-> top[i].seconds, title |-> FirstSentence(top[i].snippet)]]

\* SummarizationService.generate_jump_points
GenerateJumpPoints(segments, answer, max_points) ==
    LET cands == Candidates(segments) IN
    IF cands = <<>> THEN <<>>
    ELSE IF answer.kind = "timeout" THEN <<>>
    ELSE IF answer.kind = "parsed" /\ ParsedJumpPoints(answer.items, max_points) # <<>>
    THEN ParsedJumpPoints(answer.items, max_points)
    ELSE AdapterFallback(cands, max_points)

\* a heuristic that thins the list and does not cut it to 8 entries
CoordinatorHeuristicUncut(segments) ==
    LET candidates == SortByKey([i \in DOMAIN segments |->
                        [key |-> 1000 - ((IF HasKeyword(<<segments[i].text>>) THEN 400 ELSE 0)
                                          + Min(200, TextLen)),
                         seconds |-> segments[i].start, text |-> segments[i].text]])
        top20 == Take(candidates, 20)
        top == SortByKey([i \in DOMAIN top20 |-> [top20[i] EXCEPT !.key = top20[i].seconds]])
        cut == IF Len(top) > 8 THEN EveryNth(top, StepOf(Len(top), 8)) ELSE top
    IN  [i \in DOMAIN cut |->
            [seconds |-> cut[i].seconds, title |-> FirstSentence(<<cut[i].text>>)]]

\* coordinator.py lines 355-384: the coordinator's own heuristic
CoordinatorHeuristic(segments) ==
    LET candidates == SortByKey([i \in DOMAIN segments |->
                        [key |-> 1000 - ((IF HasKeyword(<<segments[i].text>>) THEN 400 ELSE 0)
                                          + Min(200, TextLen)),
                         seconds |-> segments[i].start, text |-> segments[i].text]])
        top20 == Take(candidates, 20)
        top == SortByKey([i \in DOMAIN top20 |-> [top20[i] EXCEPT !.key = top20[i].seconds]])
        cut == IF Len(top) > 8 THEN Take(EveryNth(top, StepOf(Len(top), 8)), 8) ELSE top
    IN  [i \in DOMAIN cut |->
            [seconds |-> cut[i].seconds, title |-> FirstSentence(<<cut[i].text>>)]]

\* coordinator.py lines 344-388: the list appended to the transcript
JumpPointsPersisted(segments, curated) ==
    IF curated # <<>> THEN curated ELSE CoordinatorHeuristic(segments)

\* a handler run that has reached step 6 with the segments of its transcript,
\* and the behaviour the LLM is going to show
InitJump ==
    /\ summaries = <<>>
    /\ versions = <<>>
    /\ tasks = <<>>
    /\ pending_tasks = <<>>
    /\ active_workers = 0
    /\ callers = [c \in Callers |-> IdleCaller]
    /\ w = [t \in TaskIds |-> IdleWorker]
    /\ ret \in {[op |-> "jump_input", segments |-> segments, answer |-> answer] :
                    segments \in SegmentLists, answer \in LlmJumpAnswers}
    /\ clock = 1
    /\ progressCalls = 0
    /\ now = 1
    /\ sync_groups = {}
    /\ device_syncs = <<>>

\* step 6 of the handler: the list that is appended to the transcript
DeriveJumpPoints ==
    /\ ret.op = "jump_input"
    /\ LET curated == GenerateJumpPoints(ret.segments, ret.answer, 10) IN
       ret' = [op |-> "jump_points", segments |-> ret.segments, answer |-> ret.answer,
               curated |-> curated,
               persisted |-> JumpPointsPersisted(ret.segments, curated)]
    /\ UNCHANGED <<summaries, versions, tasks, pending_tasks, active_workers, callers, w,
                   clock, progressCalls, now, syncVars>>

NextJump == DeriveJumpPoints

SpecJump == InitJump /\ [][NextJump]_vars

(* ------------------------------ sync groups ----------------------------- *)

\* number of characters of a sync code
CodeLen == 1

\* the characters generate_sync_code draws from
CodeChars == {"A", "B"}

\* the lower-case letters a client may type instead
LowerChars == {"a", "b"}

\* str.upper() on one character
UpperChar(ch) == CASE ch = "a" -> "A" [] ch = "b" -> "B" [] OTHER -> ch

\* sync_code.upper()
Upper(code) == [i \in DOMAIN code |-> UpperChar(code[i])]

\* the codes generate_sync_code can return
GeneratedCodes == [1..CodeLen -> CodeChars]

\* the codes a client can send to join
TypedCodes == [1..CodeLen -> CodeChars \cup LowerChars]

\* the ids of the users
SyncUsers == {"u1", "u2", "u3"}

\* the device_name argument of join_sync_group
DeviceNames == {"iPhone Safari"}

\* DeviceSync(sync_code=..., device_user_id=..., device_name=...)
NewDeviceSync(code, user, name) ==
    [sync_code |-> code, device_user_id |-> user, device_name |-> name]

\* create_sync_group; code is what generate_sync_code keeps drawing: a code
\* in use makes all ten tries collide
CreateSyncGroup(master_user_id, code) ==
    /\ IF code \in sync_groups
       THEN /\ ret' = [op |-> "create_sync_group", sync_code |-> None]
            /\ UNCHANGED <<sync_groups, device_syncs>>
       ELSE /\ sync_groups' = sync_groups \cup {code}
            /\ device_syncs' = Append(device_syncs,
                                      NewDeviceSync(code, master_user_id, "Master Device"))
            /\ ret' = [op |-> "create_sync_group", sync_code |-> code]
    /\ UNCHANGED <<summaries, versions, tasks, pending_tasks, active_workers, callers, w,
                   clock, progressCalls, now>>

\* the rows of a device in a group
DeviceRows(code, user) ==
    {i \in DOMAIN device_syncs : /\ device_syncs[i].sync_code = code
                                 /\ device_syncs[i].device_user_id = user}

\* a join that adds a row without looking for the one of the device
JoinSyncGroupAlwaysAdds(sync_code, device_user_id, device_name) ==
    /\ IF Upper(sync_code) \notin sync_groups
       THEN /\ ret' = [op |-> "join_sync_group", sync_code |-> sync_code, result |-> FALSE]
            /\ UNCHANGED device_syncs
       ELSE /\ device_syncs' = Append(device_syncs,
                        NewDeviceSync(Upper(sync_code), device_user_id, device_name))
            /\ ret' = [op |-> "join_sync_group", sync_code |-> sync_code, result |-> TRUE]
    /\ UNCHANGED <<summaries, versions, tasks, pending_tasks, active_workers, callers, w,
                   clock, progressCalls, now, sync_groups>>

\* join_sync_group
JoinSyncGroup(sync_code, device_user_id, device_name) ==
    /\ IF Upper(sync_code) \notin sync_groups
       THEN /\ ret' = [op |-> "join_sync_group", sync_code |-> sync_code, result |-> FALSE]
            /\ UNCHANGED device_syncs
       ELSE LET existing == DeviceRows(Upper(sync_code), device_user_id) IN
            /\ IF existing # {}
               THEN device_syncs' = [device_syncs EXCEPT
                        ![CHOOSE i \in existing : \A j \in existing : i <= j].device_name =
                            device_name]
               ELSE device_syncs' = Append(device_syncs,
                        NewDeviceSync(Upper(sync_code), device_user_id, device_name))
            /\ ret' = [op |-> "join_sync_group", sync_code |-> sync_code, result |-> TRUE]
    /\ UNCHANGED <<summaries, versions, tasks, pending_tasks, active_workers, callers, w,
                   clock, progressCalls, now, sync_groups>>

\* get_sync_group_users: the group of the first row of the user, and the
\* device_user_id of every row of that group
GetSyncGroupUsers(user_id) ==
    /\ LET mine == {i \in DOMAIN device_syncs : device_syncs[i].device_user_id = user_id} IN
       IF mine = {}
       THEN ret' = [op |-> "get_sync_group_users", user_id |-> user_id,
                    users |-> <<user_id>>]
       ELSE LET device_sync == device_syncs[CHOOSE i \in mine : \A j \in mine : i <= j]
                all_devices == SelectSeq(device_syncs,
                                    LAMBDA d : d.sync_code = device_sync.sync_code)
            IN  ret' = [op |-> "get_sync_group_users", user_id |-> user_id,
                        users |-> [i \in DOMAIN all_devices |->
                                        all_devices[i].device_user_id]]
    /\ UNCHANGED <<summaries, versions, tasks, pending_tasks, active_workers, callers, w,
                   clock, progressCalls, now, syncVars>>

\* the sync functions, called one at a time by the request handlers
NextSync ==
    \/ \E u \in SyncUsers, code \in GeneratedCodes : CreateSyncGroup(u, code)
    \/ \E code \in TypedCodes, u \in SyncUsers, name \in DeviceNames :
            JoinSyncGroup(code, u, name)
    \/ \E u \in SyncUsers : GetSyncGroupUsers(u)

SpecSync == Init /\ [][NextSync]_vars

(* ------------------------------ properties ------------------------------ *)

ActiveStatuses == {"pending", "processing"}

\* the tasks of video p that are pending or processing
ActiveTasks(p) ==
    {t \in DOMAIN tasks : tasks[t].video_path = p /\ tasks[t].status \in ActiveStatuses}

\* C1: for every video path, at most one task that is pending or processing
\* carries that path, in every reachable state.
C1_AdmissionUniqueness == \A p \in Paths : Cardinality(ActiveTasks(p)) <= 1

InProgressError == "Summary generation already in progress for this video"

\* caller c asked, without force, for a path that had no Summary row, and in
\* this step its commit meets a row another Start has created meanwhile
LosesRace(c) ==
    /\ callers[c].pc = "queried"
    /\ callers[c].loaded = NoRow
    /\ ~callers[c].force
    /\ UqVideoPathViolated(callers[c].path)
    /\ callers'[c] # callers[c]

\* C2: of two concurrent non-forced Start calls for a path without Summary
\* row, the one that does not create the row is rejected with the reason
\* "already in progress", creates no row and no task, and one row exists for
\* the path.
C2_AdmissionRace ==
    [][\A c \in Callers : LosesRace(c) =>
            /\ ret'.op = "start" /\ ~ret'.success
            /\ ret'.error = InProgressError
            /\ summaries' = summaries /\ tasks' = tasks
            /\ Cardinality({id \in DOMAIN summaries : summaries[id].video_path = callers[c].path}) = 1
      ]_vars

\* the Summary rows stored for path p
RowsOf(p) == {id \in DOMAIN summaries : summaries[id].video_path = p}

\* caller c, having found no row for its path, commits a new row in this step
\* while a row for that path is stored
CommitsSecondRow(c) ==
    /\ callers[c].pc = "queried"
    /\ callers[c].loaded = NoRow
    /\ RowsOf(callers[c].path) # {}
    /\ callers'[c] # callers[c]

\* C3: at most one Summary row exists per video path, and a commit of a
\* second row for a stored path fails and leaves the table unchanged.
C3_UniqueSummaryRow ==
    /\ [](\A p \in Paths : Cardinality(RowsOf(p)) <= 1)
    /\ [][\A c \in Callers : CommitsSecondRow(c) =>
                /\ summaries' = summaries
                /\ ~ret'.success
                /\ callers'[c].pc = "idle"]_vars

\* a second insert for a stored path has just been refused
C3_Witness ==
    /\ ret.op = "start"
    /\ ret.error = "Database error: UNIQUE constraint failed"
    /\ \E p \in Paths : Cardinality(RowsOf(p)) = 1

\* the handler runs for video p that have returned a success result
SuccessfulRuns(p) ==
    {t \in DOMAIN tasks : /\ tasks[t].video_path = p
                          /\ "success" \in {w[t].result, tasks[t].result}}

\* C4: for every video path with N successfully completed handler runs, the
\* version numbers stored for the path are exactly 1..N.
C4_VersionDensity ==
    \A p \in Paths : VersionsOf(p) = 1..Cardinality(SuccessfulRuns(p))

\* the handler run of task t returns success in this step
CompletesSuccessfully(t) == w[t].result # "success" /\ w'[t].result = "success"

\* C5: a handler run that completes successfully appends exactly one version
\* row, for the path of its task, numbered one more than the largest version
\* stored for that path.
C5_AppendsNextVersion ==
    [][\A t \in TaskIds : CompletesSuccessfully(t) =>
            /\ Len(versions') = Len(versions) + 1
            /\ SubSeq(versions', 1, Len(versions)) = versions
            /\ versions'[Len(versions')].video_path = tasks[t].video_path
            /\ versions'[Len(versions')].version = Max(VersionsOf(tasks[t].video_path)) + 1
      ]_vars

\* versions grows in this step by exactly one row at its end
AppendsOneVersion ==
    /\ Len(versions') = Len(versions) + 1
    /\ SubSeq(versions', 1, Len(versions)) = versions

\* some handler run commits its result and returns success in this step
SomeRunCommits ==
    \E t \in TaskIds : w[t].pc = "persist_commit" /\ w'[t].result = "success"

BackfillsVersionOne ==
    /\ ret'.op = "get"
    /\ LET new == versions'[Len(versions')] IN
       /\ new.version = 1
       /\ \E id \in DOMAIN summaries :
            /\ summaries[id].status = "completed"
            /\ Truthy(summaries[id].summary)
            /\ new.video_path = summaries[id].video_path
            /\ new.summary = summaries[id].summary
            /\ new.model_used = summaries[id].model_used

LatestVersionRows(p) ==
    {i \in DOMAIN versions : /\ versions[i].video_path = p
                             /\ versions[i].version = Max(VersionsOf(p))}

\* C7: when a Summary row is completed, the version row of its path with the
\* highest version number has the row's summary text and model_used.
C7_LatestConsistency ==
    \A id \in DOMAIN summaries :
        summaries[id].status = "completed" =>
            \A i \in LatestVersionRows(summaries[id].video_path) :
                /\ versions[i].summary = summaries[id].summary
                /\ versions[i].model_used = summaries[id].model_used

\* C8: a completed Summary row has a non-empty summary text and at least one
\* version row exists for its path.
C8_CompletedHasSummary ==
    \A id \in DOMAIN summaries :
        summaries[id].status = "completed" =>
            /\ Truthy(summaries[id].summary)
            /\ VersionsOf(summaries[id].video_path) # {}

\* the status changes the task lifecycle allows
TaskEdges ==
    {<<"pending", "processing">>, <<"pending", "cancelled">>,
     <<"processing", "completed">>, <<"processing", "failed">>}

\* C9: every change of a task's status is pending->processing,
\* pending->cancelled, processing->completed or processing->failed, so a
\* cancelled, completed or failed task never changes status again.
C9_TaskTransitions ==
    [][\A t \in DOMAIN tasks :
            (t \in DOMAIN tasks' /\ tasks'[t].status # tasks[t].status)
                => <<tasks[t].status, tasks'[t].status>> \in TaskEdges]_vars

\* C10: over all writers, a task's progress_percent never decreases and
\* stays within 0..100.
C10_ProgressMonotone ==
    [][\A t \in DOMAIN tasks :
            t \in DOMAIN tasks' =>
                /\ tasks'[t].progress_percent >= tasks[t].progress_percent
                /\ tasks'[t].progress_percent \in 0..100]_vars

\* the messages of the adapter failures
FailureMessages == {"Audio extraction failed", "Transcription failed", "Summarization failed"}

\* the handler run of task t ends in this step with the given result
RunEnds(t, result) == w[t].pc \notin {"returned", "done"} /\ w'[t].pc = "returned"
                      /\ w'[t].result = result

\* the worker of task t, whose handler returned the given result, finishes
\* the task in this step
TaskEnds(t, result) == w[t].pc = "returned" /\ w[t].result = result /\ w'[t].pc = "done"

\* the Summary row the task of t was created for, if it is still stored
OwnRow(t) ==
    {id \in DOMAIN summaries : /\ id = tasks[t].summary_id
                               /\ summaries[id].video_path = tasks[t].video_path}

\* C11: when an adapter fails, the Summary row of the run becomes failed with
\* the failure message, and the task ends failed with its error set and
\* completed_at stamped.
C11_AdapterFailure ==
    [][\A t \in TaskIds :
         /\ (RunEnds(t, "failure") /\ w[t].pc \in {"extract", "transcribe", "summarize"}) =>
                \A id \in OwnRow(t) : /\ summaries'[id].status = "failed"
                                       /\ summaries'[id].error_message \in FailureMessages
         /\ TaskEnds(t, "failure") =>
                /\ tasks'[t].status = "failed"
                /\ tasks'[t].error # None
                /\ tasks'[t].completed_at # 0]_vars

\* C12: when the extractor reports no audio track, the Summary row becomes
\* no_audio with a message naming the missing audio track, the run adds no
\* version row, and the task ends failed.
C12_NoAudio ==
    [][\A t \in TaskIds :
         /\ RunEnds(t, "no_audio") =>
                /\ \A id \in OwnRow(t) :
                        /\ summaries'[id].status = "no_audio"
                        /\ summaries'[id].error_message = "Video file has no audio track"
                /\ versions' = versions
         /\ TaskEnds(t, "no_audio") => tasks'[t].status = "failed"]_vars

\* C13: cancel_task returns true exactly when the task exists and is pending;
\* it then makes the task cancelled and takes its id out of the FIFO, and
\* otherwise it changes neither the tasks nor the FIFO.
C13_CancelOnlyPending ==
    [][ret'.op = "cancel" =>
         LET t == ret'.task_id IN
         IF t \in DOMAIN tasks /\ tasks[t].status = "pending"
         THEN /\ ret'.success
              /\ DOMAIN tasks' = DOMAIN tasks
              /\ tasks'[t].status = "cancelled"
              /\ \A u \in DOMAIN tasks \ {t} : tasks'[u] = tasks[u]
              /\ pending_tasks' = SelectSeq(pending_tasks, LAMBDA x : x # t)
         ELSE /\ ~ret'.success
              /\ tasks' = tasks
              /\ pending_tasks' = pending_tasks]_vars

\* a cancel has succeeded on a task that was waiting in the FIFO behind
\* another one, and a cancel of a task that is not pending has been refused
C13_Witness ==
    /\ ret.op = "cancel" /\ ret.success
    /\ tasks[ret.task_id].status = "cancelled"
    /\ ret.task_id \notin Range(pending_tasks)
    /\ pending_tasks # <<>>
    /\ \E u \in DOMAIN tasks : tasks[u].status \in {"processing", "completed", "failed"}

\* the dispatcher hands task t to a worker thread in this step
HandsOut(t) == w[t].pc = "none" /\ w'[t].pc = "spawned"

\* task t has been handed to a worker thread
HandedOut(t) == w[t].pc # "none"

\* C14: when the dispatcher hands out a task, every task added before it
\* that is not cancelled has been handed out already.
C14_FifoDispatch ==
    [][\A t \in TaskIds : HandsOut(t) =>
            \A s \in DOMAIN tasks :
                s < t => (HandedOut(s) \/ tasks[s].status = "cancelled")]_vars

\* three tasks were queued together and two of them, neither cancelled, have
\* been handed out while the third still waits
C14_Witness ==
    /\ DOMAIN tasks = 1..3
    /\ HandedOut(1) /\ HandedOut(2) /\ ~HandedOut(3)
    /\ tasks[1].status = "pending" /\ tasks[2].status = "pending"
    /\ pending_tasks = <<3>>

\* the tasks whose handler is being executed
Processing == {t \in DOMAIN tasks : tasks[t].status = "processing"}

\* C15: at most max_workers tasks are processing, and at most max_workers
\* invocations of _process_task are counted as running.
C15_BoundedPool ==
    /\ Cardinality(Processing) <= max_workers
    /\ active_workers <= max_workers

\* task t has been in a terminal status for more than max_age
OldTerminal(t, max_age) ==
    /\ tasks[t].status \in TerminalStatuses
    /\ tasks[t].ended_at + max_age < now

\* C16: when cleanup_old_tasks(max_age) has returned, no task that has been
\* completed, failed or cancelled for more than max_age is left in the map.
C16_CleanupRemovesOld ==
    ret.op = "cleanup" => \A t \in DOMAIN tasks : ~OldTerminal(t, ret.max_age)

\* the positions of a worker thread, in the order _process_task and the
\* handler go through them
PcOrder == <<"none", "spawned", "nohandler", "begin", "extract", "transcribe", "summarize",
             "persist_read", "persist_max", "persist_commit", "returned", "done">>

PcRank(pc) == CHOOSE i \in DOMAIN PcOrder : PcOrder[i] = pc

\* the handler is called for task t in this step
HandlerInvoked(t) == w[t].pc # "begin" /\ w'[t].pc = "begin"

\* C17: the handler is called for a task only by the thread the dispatcher
\* started for it, and no thread position is ever entered again, so the
\* handler is called at most once per task whether it succeeds or fails.
C17_NoRetry ==
    [][\A t \in TaskIds :
         /\ HandlerInvoked(t) => w[t].pc = "spawned"
         /\ w'[t].pc # w[t].pc => PcRank(w'[t].pc) > PcRank(w[t].pc)]_vars

\* one handler run has failed and one has succeeded, both tasks are finished,
\* and the dispatcher has room and nothing left to start
C17_Witness ==
    /\ \E t \in DOMAIN tasks : w[t].pc = "done" /\ tasks[t].result = "failure"
    /\ \E t \in DOMAIN tasks : w[t].pc = "done" /\ tasks[t].result = "success"
    /\ pending_tasks = <<>>
    /\ active_workers = 0

AlreadyExistsError == "Summary already exists for this video"

\* C18: a Start rejected by admission, as already existing or as already in
\* progress, adds no task and no version row and leaves every Summary row
\* as it was.
C18_RejectionHasNoEffect ==
    [][(ret'.op = "start" /\ ret'.error \in {AlreadyExistsError, InProgressError}) =>
            /\ summaries' = summaries
            /\ versions' = versions
            /\ tasks' = tasks
            /\ pending_tasks' = pending_tasks]_vars

\* a Start has just been rejected for a path whose Summary is completed
C18_Witness ==
    /\ ret.op = "start" /\ ret.error = AlreadyExistsError
    /\ \E id \in DOMAIN summaries : summaries[id].status = "completed"
    /\ versions # <<>>

\* caller c has passed admission for a path that has a Summary row
AdmittedOnRow(c) == callers[c].pc = "queried" /\ callers[c].loaded # NoRow

\* caller c, admitted on a row, enqueues in this step
EnqueuesAfterReset(c) ==
    callers[c].pc = "committed" /\ callers[c].loaded # NoRow /\ callers'[c].pc = "idle"

\* C19: an admitted Start on an existing Summary row resets the row to
\* pending with no error message under the same id, and enqueues exactly one
\* new task that carries the path and that id.
C19_AdmittedStartResets ==
    [][\A c \in Callers :
         /\ (AdmittedOnRow(c) /\ callers'[c] # callers[c]) =>
                LET id == callers[c].loaded.id IN
                /\ callers'[c].pc = "committed"
                /\ callers'[c].sid = id
                /\ id \in DOMAIN summaries'
                /\ summaries'[id].video_path = callers[c].path
                /\ summaries'[id].status = "pending"
                /\ summaries'[id].error_message = None
         /\ EnqueuesAfterReset(c) =>
                /\ ret'.success
                /\ \E t \in DOMAIN tasks' \ DOMAIN tasks :
                        /\ DOMAIN tasks' = DOMAIN tasks \cup {t}
                        /\ tasks'[t].video_path = callers[c].path
                        /\ tasks'[t].summary_id = callers[c].sid
                        /\ tasks'[t].status = "pending"
                        /\ pending_tasks' = Append(pending_tasks, t)]_vars

\* the handler run of task t has exited
HandlerExited(t) == w[t].pc \in {"returned", "done"}

\* C20: once a handler run has exited, by whatever path, neither its
\* temporary directory nor the audio file inside it exists.
C20_TempFilesRemoved == \A t \in TaskIds : HandlerExited(t) => w[t].files = {}

\* a run has exited with a failure while another run still holds its
\* directory and the audio file in it
C20_Witness ==
    /\ \E t \in TaskIds : w[t].pc = "returned" /\ w[t].result = "failure"
    /\ \E u \in TaskIds : w[u].files = {"temp_dir", "audio"}

\* Summary row id is the only stored row whose path ends in the basename of q
OnlyMatch(id, q) ==
    /\ Basename(summaries[id].video_path) = Basename(q)
    /\ \A j \in DOMAIN summaries :
            Basename(summaries[j].video_path) = Basename(q) => j = id

\* C21: get_video_summary called with any path that ends in the basename of a
\* stored Summary row returns that row, whatever its status and however many
\* versions are stored.
C21_TolerantLookup ==
    [][\A q \in Paths : GetVideoSummary(q) =>
            \A id \in DOMAIN summaries :
                OnlyMatch(id, q) => (ret'.found /\ ret'.id = id)]_vars

\* the Summary rows stored under another path with the basename of q
SameBasenameRows(q) ==
    {id \in DOMAIN summaries : /\ summaries[id].video_path # q
                               /\ Basename(summaries[id].video_path) = Basename(q)}

\* C22: when a row is stored for exactly the queried path and another row
\* only shares its basename, the row get_video_summary returns is the one of
\* the queried path, whichever of the two was generated last.
C22_ExactMatchFirst ==
    [][\A q \in Paths : GetVideoSummary(q) =>
            ((RowByPath(q) # 0 /\ SameBasenameRows(q) # {} /\ ret'.found)
                => ret'.id = RowByPath(q))]_vars

\* C23: after a successful delete_video_summary of a path, neither a Summary
\* row nor a version row of that path is stored, so the next successful run
\* for the path starts again at version 1.
C23_DeleteRemovesVersions ==
    [][\A p \in Paths : (DeleteVideoSummary(p) /\ ret'.success) =>
            /\ \A id \in DOMAIN summaries' : summaries'[id].video_path # p
            /\ \A i \in DOMAIN versions' : versions'[i].video_path # p]_vars

NotFoundError == "Video file not found"

\* C24: start_video_summary for a path without a file returns a failure and
\* does nothing else: no Summary row is added or changed, no task is added,
\* and the caller is not left inside the call.
C24_MissingVideoRejected ==
    [][\A c \in Callers, force \in BOOLEAN :
         StartVideoSummary(c, MissingPath, force, None) =>
            /\ ret' = [op |-> "start", success |-> FALSE, error |-> NotFoundError]
            /\ summaries' = summaries
            /\ versions' = versions
            /\ tasks' = tasks
            /\ pending_tasks' = pending_tasks
            /\ callers' = callers]_vars

\* a Start for a missing file has been refused while a Summary row is stored
\* and a task is waiting
C24_Witness ==
    /\ ret.op = "start" /\ ret.error = NotFoundError
    /\ summaries # <<>>
    /\ pending_tasks # <<>>

\* the behaviours of the LLM that give no parsable list of jump points
NoCuratedList == {"unhealthy", "timeout", "http_error", "no_array", "bad_json"}

\* C25: when the LLM is unavailable or its answer cannot be parsed,
\* generate_jump_points returns no list, and the jump points stored with the
\* version are those of the coordinator's heuristic, at most 8.
C25_HeuristicFallback ==
    (ret.op = "jump_points" /\ ret.answer.kind \in NoCuratedList) =>
        /\ ret.curated = <<>>
        /\ ret.persisted = CoordinatorHeuristic(ret.segments)
        /\ Len(ret.persisted) <= 8

\* the groups and devices for which the table holds more than one row
DuplicateDevices ==
    {pair \in sync_groups \X SyncUsers : Cardinality(DeviceRows(pair[1], pair[2])) > 1}

\* C26: however often a device joins a group, with the code in any letter
\* case, the group holds exactly one row of the device and every call
\* returns true; joining a code of no group returns false and adds no row.
C26_JoinIdempotent ==
    /\ [](DuplicateDevices = {})
    /\ [][\A code \in TypedCodes, u \in SyncUsers, name \in DeviceNames :
            (ret'.op = "join_sync_group" /\ ret'.sync_code = code
                /\ JoinSyncGroup(code, u, name)) =>
                IF Upper(code) \in sync_groups
                THEN /\ ret'.result
                     /\ \E i \in DOMAIN device_syncs' :
                            /\ device_syncs'[i].sync_code = Upper(code)
                            /\ device_syncs'[i].device_user_id = u
                     /\ Len(device_syncs') =
                            Len(device_syncs) + (IF DeviceRows(Upper(code), u) = {} THEN 1 ELSE 0)
                ELSE /\ ~ret'.result
                     /\ device_syncs' = device_syncs]_vars

\* the master of a group has joined it again with the code in lower case:
\* the call returned true and the group still holds its one row, renamed
C26_Witness ==
    /\ ret.op = "join_sync_group" /\ ret.result
    /\ ret.sync_code # Upper(ret.sync_code)
    /\ Len(device_syncs) = 1
    /\ device_syncs[1].sync_code = Upper(ret.sync_code)
    /\ device_syncs[1].device_name \in DeviceNames

\* the groups that hold a row of the user
GroupsOf(user) ==
    {device_syncs[i].sync_code :
        i \in {j \in DOMAIN device_syncs : device_syncs[j].device_user_id = user}}

\* the users that have a row in the group
Members(code) ==
    {device_syncs[i].device_user_id :
        i \in {j \in DOMAIN device_syncs : device_syncs[j].sync_code = code}}

\* C27: get_sync_group_users gives a member of a group exactly the members
\* of that group, so two members of one group obtain the same set, and it
\* gives a user without group only the user's own id.
C27_SameGroupSameUsers ==
    ret.op = "get_sync_group_users" =>
        IF GroupsOf(ret.user_id) = {}
        THEN ret.users = <<ret.user_id>>
        ELSE \A code \in GroupsOf(ret.user_id) : Range(ret.users) = Members(code)

\* the worker thread of task t reaches the given position in this step
Entered(t, pc) == w[t].pc # pc /\ w'[t].pc = pc

\* the Summary rows that become completed in this step
BecomeCompleted ==
    {id \in DOMAIN summaries' :
        /\ summaries'[id].status = "completed"
        /\ id \in DOMAIN summaries => summaries[id].status # "completed"}

Added(t) == t \in DOMAIN tasks

\* task t has ended, or has been cancelled
EndedOrCancelled(t) ==
    Added(t) /\ tasks[t].status \in {"completed", "failed", "cancelled"}

\* C29: with the dispatcher running and every handler call returning, a task
\* that has been added ends completed or failed unless it is cancelled, and
\* a task of a type without handler never ends completed.
C29_QueueLiveness ==
    /\ \A t \in TaskIds :
            Added(t) ~> EndedOrCancelled(t)
    /\ [](\A t \in DOMAIN tasks :
            tasks[t].task_type \notin Handlers => tasks[t].status # "completed")

\* three tasks were added and none is cancelled: all have ended, the one
\* without handler as failed
C29_Witness ==
    /\ DOMAIN tasks = 1..3
    /\ \A t \in DOMAIN tasks : tasks[t].status \in {"completed", "failed"}
    /\ \E t \in DOMAIN tasks : tasks[t].task_type = OtherType /\ tasks[t].status = "failed"
    /\ \E t \in DOMAIN tasks : tasks[t].status = "completed"

\* a Start call for path p is between its commit and its add_task
Enqueuing(p) == \E c \in Callers : callers[c].pc = "committed" /\ callers[c].path = p

\* C30: outside a running Start call, a Summary row that is pending or
\* processing has a task of its path that is pending or processing; so a
\* Start without force is rejected as already in progress only while such a
\* task exists, also after the pending task has been cancelled.
C30_StatusAgreesWithQueue ==
    /\ [](\A id \in DOMAIN summaries :
            (summaries[id].status \in ActiveStatuses /\ ~Enqueuing(summaries[id].video_path))
                => ActiveTasks(summaries[id].video_path) # {})
    /\ [][\A c \in Callers, p \in Paths :
            (/\ ret'.op = "start"
             /\ StartVideoSummary(c, p, FALSE, None)
             /\ ret'.error = InProgressError)
                => (ActiveTasks(p) # {} \/ Enqueuing(p))]_vars

\* C31: the handler is never called for a task that cancel_task has
\* cancelled (cancel_task returned true for it), whatever the interleaving
\* of the cancel with the dispatcher's pop and the start of the thread.
C31_CancelledNeverRuns ==
    [][\A t \in DOMAIN tasks :
         tasks[t].status = "cancelled" => ~HandlerInvoked(t)]_vars

\* the positions of a worker thread inside the handler
HandlerPcs == {"begin", "extract", "transcribe", "summarize",
               "persist_read", "persist_max", "persist_commit"}

\* the handler run of task t takes a step that is not its successful return
UnsuccessfulStep(t) ==
    /\ w[t].pc \in HandlerPcs
    /\ w'[t] # w[t]
    /\ ~(w'[t].pc = "returned" /\ w'[t].result = "success")

\* the handler run of task t ends in this step with a failure or no_audio
EndsUnsuccessfully(t) ==
    /\ w[t].pc \in HandlerPcs
    /\ w'[t].pc = "returned"
    /\ w'[t].result \in {"failure", "no_audio"}

\* the step leaves every Summary row in place and writes nothing but status
\* and error_message
OnlyStatusAndError ==
    /\ DOMAIN summaries' = DOMAIN summaries
    /\ \A id \in DOMAIN summaries :
         \A f \in DOMAIN summaries[id] \ {"status", "error_message"} :
            summaries'[id][f] = summaries[id][f]

\* C32: no step of a handler run other than its successful return, and so no
\* step of a run that ends in failure or no_audio, writes anything but
\* status and error_message of a Summary row or touches a version row; the
\* final step of such a run leaves the row failed or no_audio.
C32_FailureKeepsSummary ==
    [][\A t \in TaskIds :
         /\ UnsuccessfulStep(t) => (OnlyStatusAndError /\ versions' = versions)
         /\ EndsUnsuccessfully(t) =>
                \A id \in DOMAIN summaries :
                    summaries'[id] # summaries[id] =>
                        summaries'[id].status \in {"failed", "no_audio"}]_vars

\* a forced re-run of a video that had a summary and a version has failed:
\* the row is failed and still holds the summary text, and the version is
\* still stored
C32_Witness ==
    \E t \in DOMAIN tasks :
        /\ w[t].pc = "returned" /\ w[t].result = "failure"
        /\ tasks[t].summary_id \in DOMAIN summaries
        /\ summaries[tasks[t].summary_id].status = "failed"
        /\ summaries[tasks[t].summary_id].summary # None
        /\ VersionsOf(summaries[tasks[t].summary_id].video_path) # {}

\* C33: a Summary row carries an error message only while its status is
\* failed or no_audio.
C33_ErrorOnlyWhenFailed ==
    \A id \in DOMAIN summaries :
        summaries[id].error_message # None =>
            summaries[id].status \in {"failed", "no_audio"}

\* C34: when a handler run returns success, which is the result its task
\* then ends completed with, the step has left the Summary row of the task
\* completed and has added a version row for the path of the task.
C34_SuccessIsStored ==
    [][\A t \in TaskIds : CompletesSuccessfully(t) =>
            /\ tasks[t].summary_id \in DOMAIN summaries'
            /\ summaries'[tasks[t].summary_id].status = "completed"
            /\ \E i \in DOMAIN versions' \ DOMAIN versions :
                    versions'[i].video_path = tasks[t].video_path]_vars

\* C35: every id in the pending FIFO occurs in it once and is the id of a
\* task that is in the tasks map with status pending.
C35_FifoConsistent ==
    /\ \A i, j \in DOMAIN pending_tasks : i # j => pending_tasks[i] # pending_tasks[j]
    /\ \A i \in DOMAIN pending_tasks :
         /\ pending_tasks[i] \in DOMAIN tasks
         /\ tasks[pending_tasks[i]].status = "pending"

\* cleanup_old_tasks has just removed the first task from the map while one
\* task is cancelled and another one waits in the FIFO
C35_Witness ==
    /\ ret.op = "cleanup"
    /\ tasks # <<>> /\ 1 \notin DOMAIN tasks
    /\ \E t \in DOMAIN tasks : tasks[t].status = "cancelled"
    /\ pending_tasks # <<>>

\* C36: cleanup_old_tasks(max_age) leaves in the map, with all its fields,
\* every task that is pending or processing and every finished task that has
\* not been finished for more than max_age; it does not touch the FIFO.
C36_CleanupKeepsOthers ==
    [][ret'.op = "cleanup" =>
         /\ pending_tasks' = pending_tasks
         /\ DOMAIN tasks' \subseteq DOMAIN tasks
         /\ \A t \in DOMAIN tasks :
                ~OldTerminal(t, ret'.max_age) =>
                    (t \in DOMAIN tasks' /\ tasks'[t] = tasks[t])]_vars

\* a cleanup has just removed the first task and has kept a task that
\* finished later and a task that has not finished
C36_Witness ==
    /\ ret.op = "cleanup"
    /\ tasks # <<>> /\ 1 \notin DOMAIN tasks
    /\ \E t \in DOMAIN tasks :
            tasks[t].status \in {"completed", "failed"} /\ tasks[t].completed_at # 0
    /\ \E t \in DOMAIN tasks : tasks[t].status \in {"pending", "processing"}

(* ------------------------- TranscriptionService ------------------------- *)

\* bytes in a MiB: the divisor of os.path.getsize in transcribe_audio
MiB == 1048576

\* the size limit of transcribe_audio, in MiB
MaxSizeMb == 200

\* sizes in bytes of the extracted audio file
AudioSizes == {0, 1, 199 * MiB, MaxSizeMb * MiB, MaxSizeMb * MiB + 1, 250 * MiB}

\* result['text'] of the speech model, as its tokens; " " is white space
WhisperTexts == {<<>>, <<" ">>, <<"hello">>, <<" ", "hello", " ">>}

RECURSIVE LStrip(_)
LStrip(toks) ==
    IF toks # <<>> /\ Head(toks) = " " THEN LStrip(Tail(toks)) ELSE toks

RECURSIVE RStrip(_)
RStrip(toks) ==
    IF toks # <<>> /\ toks[Len(toks)] = " "
    THEN RStrip(SubSeq(toks, 1, Len(toks) - 1)) ELSE toks

\* str.strip()
Strip(toks) == RStrip(LStrip(toks))

\* the audio file and the speech model as a transcription call finds them:
\* whether the file exists, its size, whether the model can be loaded, and
\* what model.transcribe does with the file; it raises on a file it cannot
\* decode, which a missing or empty file is
TranscribeInputs ==
    {[op |-> "transcribe_input", exists |-> e, size |-> s, loaded |-> l,
      raises |-> r, text |-> t] :
        e \in BOOLEAN, s \in AudioSizes, l \in BOOLEAN, r \in BOOLEAN, t \in WhisperTexts}

RealTranscribeInputs ==
    {i \in TranscribeInputs :
        /\ ~i.exists => i.size = 0
        /\ i.size = 0 => i.raises
        /\ i.raises => i.text = <<>>}

\* what a transcription call returns; invoked tells whether model.transcribe
\* was called
TranscribeResult(success, transcript, error, invoked) ==
    [success |-> success, transcript |-> transcript, error |-> error, invoked |-> invoked]

\* transcribe_audio, lines 51-128
TranscribeAudioResult(i) ==
    IF ~i.exists THEN TranscribeResult(FALSE, None, "Audio file not found", FALSE)
    ELSE IF i.size > MaxSizeMb * MiB
    THEN TranscribeResult(FALSE, None, "Audio file too large", FALSE)
    ELSE IF i.size = 0 THEN TranscribeResult(FALSE, None, "Audio file is empty", FALSE)
    ELSE IF ~i.loaded THEN TranscribeResult(FALSE, None, "Could not load Whisper model", FALSE)
    ELSE IF i.raises THEN TranscribeResult(FALSE, None, "Transcription failed", TRUE)
    ELSE IF Strip(i.text) = <<>>
    THEN TranscribeResult(FALSE, None, "No speech detected in audio file", TRUE)
    ELSE TranscribeResult(TRUE, Strip(i.text), None, TRUE)

\* transcribe_with_timestamps, lines 227-268
TranscribeWithTimestampsResult(i) ==
    IF ~i.loaded THEN TranscribeResult(FALSE, None, "Could not load Whisper model", FALSE)
    ELSE IF i.raises
    THEN TranscribeResult(FALSE, None, "Timestamped transcription failed", TRUE)
    ELSE TranscribeResult(TRUE, Strip(i.text), None, TRUE)

InitTranscribe ==
    /\ summaries = <<>>
    /\ versions = <<>>
    /\ tasks = <<>>
    /\ pending_tasks = <<>>
    /\ active_workers = 0
    /\ callers = [c \in Callers |-> IdleCaller]
    /\ w = [t \in TaskIds |-> IdleWorker]
    /\ ret \in RealTranscribeInputs
    /\ clock = 1
    /\ progressCalls = 0
    /\ now = 1
    /\ sync_groups = {}
    /\ device_syncs = <<>>

\* a call of transcribe_audio on the file
TranscribeAudio ==
    /\ ret.op = "transcribe_input"
    /\ ret' = [op |-> "transcribe_audio", input |-> ret,
               result |-> TranscribeAudioResult(ret)]
    /\ UNCHANGED <<summaries, versions, tasks, pending_tasks, active_workers, callers, w,
                   clock, progressCalls, now, syncVars>>

\* the call the handler makes (coordinator.py line 286)
TranscribeWithTimestamps ==
    /\ ret.op = "transcribe_input"
    /\ ret' = [op |-> "transcribe_with_timestamps", input |-> ret,
               result |-> TranscribeWithTimestampsResult(ret)]
    /\ UNCHANGED <<summaries, versions, tasks, pending_tasks, active_workers, callers, w,
                   clock, progressCalls, now, syncVars>>

NextTranscribe == TranscribeAudio \/ TranscribeWithTimestamps

SpecTranscribe == InitTranscribe /\ [][NextTranscribe]_vars

\* the transcriber call that has returned respects the limits: an empty or
\* oversized file is refused without a call of the model, and an empty text
\* of the model is reported as a failure
RespectsLimits ==
    LET i == ret.input
        r == ret.result
    IN  /\ (i.size = 0 \/ i.size > MaxSizeMb * MiB) => (~r.success /\ ~r.invoked)
        /\ (r.invoked /\ ~i.raises /\ Strip(i.text) = <<>>) => ~r.success
        /\ r.success => r.transcript # <<>>

\* C37: the entry point the handler calls, transcribe_with_timestamps,
\* refuses an audio file of 0 bytes or of more than 200 MiB without calling
\* the speech model, and reports a failure when the model returns empty text.
C37_HotPathLimits ==
    ret.op = "transcribe_with_timestamps" => RespectsLimits

(* ------------------ generate_jump_points with any max_points ------------ *)

\* max_points arguments of generate_jump_points; 10 is the default and the
\* value the coordinator passes
MaxPointsArgs == {1, 2, 3, 10}

\* a caller about to call generate_jump_points with the segments of a
\* transcript, a max_points argument, and the behaviour the LLM is going to
\* show
InitMaxPoints ==
    /\ summaries = <<>>
    /\ versions = <<>>
    /\ tasks = <<>>
    /\ pending_tasks = <<>>
    /\ active_workers = 0
    /\ callers = [c \in Callers |-> IdleCaller]
    /\ w = [t \in TaskIds |-> IdleWorker]
    /\ ret \in {[op |-> "max_points_input", segments |-> segments, answer |-> answer,
                 max_points |-> max_points] :
                    segments \in SegmentLists, answer \in LlmJumpAnswers,
                    max_points \in MaxPointsArgs}
    /\ clock = 1
    /\ progressCalls = 0
    /\ now = 1
    /\ sync_groups = {}
    /\ device_syncs = <<>>

\* the call returns
CallGenerateJumpPoints ==
    /\ ret.op = "max_points_input"
    /\ ret' = [op |-> "generate_jump_points", segments |-> ret.segments,
               answer |-> ret.answer, max_points |-> ret.max_points,
               out |-> GenerateJumpPoints(ret.segments, ret.answer, ret.max_points)]
    /\ UNCHANGED <<summaries, versions, tasks, pending_tasks, active_workers, callers, w,
                   clock, progressCalls, now, syncVars>>

NextMaxPoints == CallGenerateJumpPoints

SpecMaxPoints == InitMaxPoints /\ [][NextMaxPoints]_vars

\* the entries of out are in order of non-decreasing seconds
OrderedBySeconds(out) ==
    \A i \in 1..(Len(out) - 1) : out[i].seconds <= out[i + 1].seconds

\* C38: generate_jump_points returns at most max_points entries, in order of
\* non-decreasing seconds, whether the list comes from the parsed answer of
\* the LLM or from the fallback.
C38_AtMostMaxPoints ==
    ret.op = "generate_jump_points" =>
        /\ Len(ret.out) <= ret.max_points
        /\ OrderedBySeconds(ret.out)

(* ------------------- the coordinator's heuristic alone ------------------ *)

\* number of transcript segments given to the coordinator's heuristic
MaxHeuristicSegments == 24

\* where the keyword segments of a transcript of n segments lie: nowhere,
\* everywhere, in the first k, in the last k, or at every second or third
KeywordPlaces(n) ==
    {{}, 1..n}
    \cup {1..k : k \in 1..(n - 1)}
    \cup {(n - k + 1)..n : k \in 1..(n - 1)}
    \cup {{i \in 1..n : i % m = 0} : m \in {2, 3}}

HeuristicSegmentLists ==
    UNION {{MakeSegments(d, [i \in 1..n |-> IF i \in K THEN "Intro" ELSE "Plain talk"]) :
                d \in SegmentSeconds, K \in KeywordPlaces(n)} :
           n \in 0..MaxHeuristicSegments}

\* a handler run whose curated list is empty, with the segments of its
\* transcript
InitHeuristic ==
    /\ summaries = <<>>
    /\ versions = <<>>
    /\ tasks = <<>>
    /\ pending_tasks = <<>>
    /\ active_workers = 0
    /\ callers = [c \in Callers |-> IdleCaller]
    /\ w = [t \in TaskIds |-> IdleWorker]
    /\ ret \in {[op |-> "heuristic_input", segments |-> segments] :
                    segments \in HeuristicSegmentLists}
    /\ clock = 1
    /\ progressCalls = 0
    /\ now = 1
    /\ sync_groups = {}
    /\ device_syncs = <<>>

\* coordinator.py lines 356-384 have run
RunCoordinatorHeuristic ==
    /\ ret.op = "heuristic_input"
    /\ ret' = [op |-> "heuristic", segments |-> ret.segments,
               out |-> CoordinatorHeuristic(ret.segments)]
    /\ UNCHANGED <<summaries, versions, tasks, pending_tasks, active_workers, callers, w,
                   clock, progressCalls, now, syncVars>>

NextHeuristic == RunCoordinatorHeuristic

SpecHeuristic == InitHeuristic /\ [][NextHeuristic]_vars

\* the score of a segment, in units of 1/200: 2 for a keyword, plus
\* min(1, len(text) / 200)
Score(seg) == (IF seg.text = "Intro" THEN 400 ELSE 0) + Min(200, TextLen)

\* segment j comes before segment i when the segments are ordered by score,
\* highest first, segments of equal score in transcript order
Beats(segs, j, i) ==
    \/ Score(segs[j]) > Score(segs[i])
    \/ Score(segs[j]) = Score(segs[i]) /\ j < i

\* the 20 highest-scoring segments
Top20(segs) ==
    {i \in DOMAIN segs : Cardinality({j \in DOMAIN segs : Beats(segs, j, i)}) < 20}

\* the k-th smallest element of S
Nth(S, k) == CHOOSE x \in S : Cardinality({y \in S : y < x}) = k - 1

\* C39: the coordinator's heuristic returns at most 8 jump points, in order
\* of non-decreasing start time, all taken from the 20 highest-scoring
\* segments; up to 8 of those are all returned, and of more than 8 it returns
\* every step-th one in time order, step = len // 8, as far as 8 entries go.
C39_HeuristicSelection ==
    ret.op = "heuristic" =>
        LET segs == ret.segments
            out == ret.out
            top == Top20(segs)
            n == Cardinality(top)
            step == IF n > 8 THEN n \div 8 ELSE 1
        IN  /\ Len(out) <= 8
            /\ OrderedBySeconds(out)
            /\ Len(out) = Min(8, (n + step - 1) \div step)
            /\ \A m \in DOMAIN out :
                    out[m].seconds = segs[Nth(top, (m - 1) * step + 1)].start

\* a transcript of more than 20 segments whose first segment is not among
\* the 20 highest-scoring: 8 jump points are returned, every second one of
\* the 20
C39_Witness ==
    /\ ret.op = "heuristic"
    /\ Len(ret.segments) > 20
    /\ Len(ret.out) = 8
    /\ ret.out[1].seconds > ret.segments[1].start
    /\ ret.out[2].seconds = ret.out[1].seconds + 2 * ret.segments[1].end

====
